---- MODULE Spec2Model ----
(***************************************************************************)
(* Statistical core of the survey dashboard: the Spearman rank             *)
(* correlation (spearmanCorrelation), the pairwise correlation table       *)
(* (calculateCorrelationMatrix) and the CSV score deriver (parseCSVData).  *)
(*                                                                         *)
(* JavaScript numbers are modelled exactly: a number is either NaN, a       *)
(* rational num/den with den > 0, or an infinity (num = 1 or -1, den = 0). *)
(* Scores are kept in hundredths (the result of toFixed(2)), correlations  *)
(* in thousandths (toFixed(3)).                                            *)
(***************************************************************************)
EXTENDS Integers, Sequences, FiniteSets, TLC

VARIABLES
    pc,            \* "call" before the function under study has run, "done" after
    x, y,          \* arguments of spearmanCorrelation
    rho,           \* value returned by spearmanCorrelation
    data,          \* DataItem[] handed to calculateCorrelationMatrix
    correlations,  \* CorrelationItem[] returned by calculateCorrelationMatrix
    csvText,       \* argument of parseCSVData, a sequence of characters
    parsedData,    \* DataItem[] returned by parseCSVData
    activeTab,     \* useState('overview')
    loading,       \* useState(true)
    error,         \* useState<string | null>(null)
    fetches        \* number of calls of fetch(CSV_DATA_URL) so far

\* the state of ResearchDashboard besides data
session == <<activeTab, loading, error, fetches>>

vars == <<pc, x, y, rho, data, correlations, csvText, parsedData, session>>

----------------------------------------------------------------------------
(* Bounds of the model *)

\* longest argument sequence given to spearmanCorrelation
MaxLen == 3

\* largest number of respondents in the exhaustively enumerated data sets
MaxRecords == 3

\* number of respondents of the large cohort samples
CohortSize == 20

\* largest number of lines after the header in a CSV text
MaxLines == 2

----------------------------------------------------------------------------
(* The state of a dashboard that has not started *)

\* error === null
NoError == [isNull |-> TRUE, message |-> ""]

\* error holds the string m
Message(m) == [isNull |-> FALSE, message |-> m]

IdleSession ==
    /\ activeTab = "overview"
    /\ loading = TRUE
    /\ error = NoError
    /\ fetches = 0

----------------------------------------------------------------------------
(* JavaScript numbers *)

NaN == [nan |-> TRUE, num |-> 0, den |-> 1]

Num(p, q) == [nan |-> FALSE, num |-> p, den |-> q]

\* Infinity and -Infinity
Infinity == Num(1, 0)

MinusInfinity == Num(-1, 0)

IsInfinite(r) == ~r.nan /\ r.den = 0 /\ r.num # 0

Abs(i) == IF i < 0 THEN -i ELSE i

\* a / b for integers a, b.  The only zero divisor the program produces is
\* in 0 / 0 (one respondent: no rank difference, n*(n*n-1) = 0), which is NaN.
Quotient(a, b) == IF b = 0 THEN NaN ELSE Num(a, b)

\* 1 - q
OneMinus(q) == IF q.nan THEN NaN ELSE Num(q.den - q.num, q.den)

\* -1 <= r <= 1 as JavaScript evaluates it: false for NaN
InUnitRange(r) == ~r.nan /\ -r.den <= r.num /\ r.num <= r.den

IsNumber(r, k) == ~r.nan /\ r.num = k * r.den

\* a - b > 0: false when either is NaN
Above(a, b) == ~a.nan /\ ~b.nan /\ a.num * b.den > b.num * a.den

----------------------------------------------------------------------------
(* spearmanCorrelation *)

\* Array.prototype.sort with comparator (a, b) => a.v - b.v: a stable sort,
\* written as the insertion of each element after the last one not above it
\* (a NaN difference counts as 0).
RECURSIVE InsertByV(_, _)
InsertByV(s, e) ==
    IF s = <<>> THEN <<e>>
    ELSE IF Above(s[Len(s)].v, e.v)
         THEN Append(InsertByV(SubSeq(s, 1, Len(s) - 1), e), s[Len(s)])
         ELSE Append(s, e)

RECURSIVE SortByV(_)
SortByV(s) ==
    IF s = <<>> THEN <<>>
    ELSE InsertByV(SortByV(SubSeq(s, 1, Len(s) - 1)), s[Len(s)])

\* rank mutated: equal values are ranked from the last one to the first
rankTiesReversed(arr) ==
    LET n == Len(arr)
        sorted == SortByV([k \in 1..n |-> [v |-> arr[n + 1 - k], i |-> n + 1 - k]])
    IN  [k \in 1..n |-> CHOOSE p \in 1..n : sorted[p].i = k]

\* the inner helper rank: ranks[sorted[p].i] = p + 1 (p counted from 0)
rank(arr) ==
    LET n == Len(arr)
        sorted == SortByV([k \in 1..n |-> [v |-> arr[k], i |-> k]])
    IN  [k \in 1..n |-> CHOOSE p \in 1..n : sorted[p].i = k]

RECURSIVE SumSeq(_)
SumSeq(s) == IF s = <<>> THEN 0 ELSE s[1] + SumSeq(Tail(s))

dSquaredSum(rankX, rankY) ==
    SumSeq([k \in 1..Len(rankX) |-> (rankX[k] - rankY[k]) * (rankX[k] - rankY[k])])

\* spearmanCorrelation mutated: the length guard is gone
spearmanNoGuard(a, b) ==
    LET n == Len(a)
        m == IF Len(b) < n THEN Len(b) ELSE n
    IN  OneMinus(Quotient(6 * dSquaredSum(rank(SubSeq(a, 1, m)), rank(SubSeq(b, 1, m))),
                          n * (n * n - 1)))

\* spearmanCorrelation mutated: y is not ranked, its values stand for ranks
spearmanSecondUnranked(a, b) ==
    LET n == Len(a)
    IN  IF n # Len(b) \/ n = 0 THEN Num(0, 1)
        ELSE OneMinus(Quotient(6 * dSquaredSum(rank(a), [k \in 1..n |-> b[k].num]),
                               n * (n * n - 1)))

\* spearmanCorrelation mutated: the "1 -" of the formula is gone
spearmanMissingOne(a, b) ==
    LET n == Len(a)
    IN  IF n # Len(b) \/ n = 0 THEN Num(0, 1)
        ELSE Quotient(6 * dSquaredSum(rank(a), rank(b)), n * (n * n - 1))

spearmanCorrelation(a, b) ==
    LET n == Len(a)
    IN  IF n # Len(b) \/ n = 0 THEN Num(0, 1)
        ELSE OneMinus(Quotient(6 * dSquaredSum(rank(a), rank(b)), n * (n * n - 1)))

\* the arguments mutated: rank sorts arr itself, arr.sort((a, b) => a - b)
spearmanSortsArguments(a, b) ==
    LET sortedValues(arr) ==
            [k \in 1..Len(arr) |-> SortByV([j \in 1..Len(arr) |-> [v |-> arr[j], i |-> j]])[k].v]
    IN  IF Len(a) # Len(b) \/ Len(a) = 0 THEN <<a, b>>
        ELSE <<sortedValues(a), sortedValues(b)>>

\* the arrays x and y as a call leaves them: the code reads their length, and
\* rank sorts the copy [...arr].map(...), never arr
spearmanLeaves(a, b) == <<a, b>>

----------------------------------------------------------------------------
(* Specification of spearmanCorrelation over bounded arguments *)

Values == {Num(v, 1) : v \in 1..MaxLen}

SeqsUpTo(S, n) == UNION {[1..k -> S] : k \in 0..n}

NoRho == [nan |-> FALSE, num |-> 0, den |-> 0]

Idle ==
    /\ IdleSession
    /\ data = <<>>
    /\ correlations = <<>>
    /\ csvText = <<>>
    /\ parsedData = <<>>

InitSpearman ==
    /\ pc = "call"
    /\ x \in SeqsUpTo(Values, MaxLen)
    /\ y \in SeqsUpTo(Values, MaxLen)
    /\ rho = NoRho
    /\ Idle

CallSpearman ==
    /\ pc = "call"
    /\ rho' = spearmanCorrelation(x, y)
    /\ x' = spearmanLeaves(x, y)[1]
    /\ y' = spearmanLeaves(x, y)[2]
    /\ pc' = "done"
    /\ UNCHANGED <<data, correlations, csvText, parsedData, session>>

NextSpearman == CallSpearman

SpecSpearman == InitSpearman /\ [][NextSpearman]_vars

NoRepeats(s) == \A i, j \in 1..Len(s) : i # j => s[i] # s[j]

\* C1: for x and y of equal length n <= 1 spearmanCorrelation does not divide
\* by zero: it returns the defined finite number 0.
C1_NoDivisionByZero ==
    (pc = "done" /\ Len(x) = Len(y) /\ Len(x) <= 1) => IsNumber(rho, 0)

\* C5: for x and y of equal length n >= 1 (ties allowed) the value returned
\* by spearmanCorrelation is a number r with -1 <= r <= 1.
C5_RangeBound ==
    (pc = "done" /\ Len(x) = Len(y) /\ Len(x) >= 1) => InUnitRange(rho)

\* C9: spearmanCorrelation returns 0 whenever x and y have different
\* lengths or both are empty.
C9_Degenerate ==
    (pc = "done" /\ (Len(x) # Len(y) \/ (x = <<>> /\ y = <<>>))) => IsNumber(rho, 0)

C9_Witness ==
    pc = "done" /\ Len(x) >= 2 /\ Len(y) >= 1 /\ Len(y) < Len(x) /\ IsNumber(rho, 0)

\* C10: for every x without repeated values, of any length >= 1,
\* spearmanCorrelation(x, x) is exactly 1.
C10_Identity ==
    (pc = "done" /\ x = y /\ Len(x) >= 1 /\ NoRepeats(x)) => IsNumber(rho, 1)

\* b orders the positions exactly the other way round than a
ReverseOrder(a, b) ==
    /\ Len(a) = Len(b)
    /\ \A i, j \in 1..Len(a) : Above(a[j], a[i]) <=> Above(b[i], b[j])

\* C11: for every non-empty x of all-distinct values and every y of the same
\* length whose value order is the exact reverse of that of x,
\* spearmanCorrelation(x, y) is exactly -1.
C11_AntiIdentity ==
    (pc = "done" /\ Len(x) >= 1 /\ NoRepeats(x) /\ ReverseOrder(x, y)) => IsNumber(rho, -1)

\* the ranks r of arr are a permutation of 1..n that follows the values and,
\* among equal values, the positions
StableRanks(arr, r) ==
    LET n == Len(arr)
    IN  /\ Len(r) = n
        /\ {r[k] : k \in 1..n} = 1..n
        /\ \A i, j \in 1..n :
              /\ Above(arr[j], arr[i]) => r[i] < r[j]
              /\ (i < j /\ arr[i] = arr[j]) => r[i] < r[j]
        /\ \A i, j \in 1..n :
              arr[i] = arr[j] => \A m \in r[i]..r[j] : \E k \in 1..n : arr[k] = arr[i] /\ r[k] = m

\* C22: in a call that reaches the rank helper (equal lengths, n >= 1), the
\* ranks of x and of y are permutations of 1..n, rank 1 for the smallest
\* value, equal values ranked consecutively in the order of their positions.
C22_RankStablePermutation ==
    (pc = "done" /\ Len(x) = Len(y) /\ Len(x) >= 1) =>
        /\ StableRanks(x, rank(x))
        /\ StableRanks(y, rank(y))
        /\ \A k \in 1..Len(x) :
              (\A j \in 1..Len(x) : ~Above(x[k], x[j]) /\ (x[j] = x[k] => k <= j))
                  => rank(x)[k] = 1

\* the argument 2, 1, 2 is ranked 2, 1, 3
C22_Witness ==
    /\ pc = "done"
    /\ Len(x) = 3 /\ Len(y) = 3
    /\ x[1] = x[3] /\ Above(x[1], x[2])
    /\ rank(x) = <<2, 1, 3>>

\* C26: for x and y of equal length n >= 2, ties allowed, the value returned
\* for (x, y) is the value spearmanCorrelation gives for (y, x).
C26_Symmetric ==
    (pc = "done" /\ Len(x) = Len(y) /\ Len(x) >= 2) => rho = spearmanCorrelation(y, x)

\* different arguments with a tie and a value that is neither 1 nor -1
C26_Witness ==
    /\ pc = "done"
    /\ Len(x) = 3 /\ Len(y) = 3
    /\ x # y
    /\ x[1] = x[2]
    /\ ~rho.nan /\ ~IsNumber(rho, 1) /\ ~IsNumber(rho, -1) /\ ~IsNumber(rho, 0)

----------------------------------------------------------------------------
(* calculateCorrelationMatrix *)

variables == <<"intensity", "dependency", "competence", "alienation">>

labels == <<"Intensitas Digital", "Ketergantungan Psikologis",
            "Kompetensi Tatap Muka", "Alienasi Sosial">>

\* the index pairs in row-major order, from which the two loops choose
IndexGrid ==
    [k \in 1..(Len(variables) * Len(variables)) |->
        <<((k - 1) \div Len(variables)) + 1, ((k - 1) % Len(variables)) + 1>>]

\* the loops mutated: j runs over every index other than i
VariablePairsBothOrders == SelectSeq(IndexGrid, LAMBDA p : p[2] # p[1])

\* for i < variables.length, for j = i + 1 < variables.length, in loop order
VariablePairs == SelectSeq(IndexGrid, LAMBDA p : p[2] > p[1])

\* data.map(d => d[name])
Column(d, name) == [k \in 1..Len(d) |-> d[k][name]]

\* parseFloat(r.toFixed(3)): the nearest multiple of 0.001, a half rounding
\* away from zero; NaN stays NaN.  (No value of the model is a half of a
\* thousandth, nor close enough to one for the binary value of r to round
\* another way than r itself.)
toFixed3(r) ==
    IF r.nan THEN NaN
    ELSE LET m == (2000 * Abs(r.num) + r.den) \div (2 * r.den)
         IN  Num(IF r.num < 0 THEN -m ELSE m, 1000)

\* Math.abs(r) >= 0.25: false for NaN
AbsAtLeastQuarter(r) == ~r.nan /\ 4 * Abs(r.num) >= r.den

\* the entry pushed for the index pair p
Entry(d, p) ==
    LET corr == spearmanCorrelation(Column(d, variables[p[1]]), Column(d, variables[p[2]]))
    IN  [var1 |-> variables[p[1]], var2 |-> variables[p[2]],
         label1 |-> labels[p[1]], label2 |-> labels[p[2]],
         correlation |-> toFixed3(corr),
         significant |-> AbsAtLeastQuarter(corr)]

\* Math.abs(b.correlation) - Math.abs(a.correlation) > 0; a NaN difference
\* counts as 0 in Array.prototype.sort
AbsCorrAbove(b, a) ==
    /\ ~a.correlation.nan
    /\ ~b.correlation.nan
    /\ Abs(b.correlation.num) * a.correlation.den > Abs(a.correlation.num) * b.correlation.den

\* matrix.sort((a, b) => Math.abs(b.correlation) - Math.abs(a.correlation)):
\* a stable sort, each entry inserted after the last one it does not exceed
RECURSIVE InsertByAbsCorr(_, _)
InsertByAbsCorr(s, e) ==
    IF s = <<>> THEN <<e>>
    ELSE IF AbsCorrAbove(e, s[Len(s)])
         THEN Append(InsertByAbsCorr(SubSeq(s, 1, Len(s) - 1), e), s[Len(s)])
         ELSE Append(s, e)

RECURSIVE SortByAbsCorr(_)
SortByAbsCorr(s) ==
    IF s = <<>> THEN <<>>
    ELSE InsertByAbsCorr(SortByAbsCorr(SubSeq(s, 1, Len(s) - 1)), s[Len(s)])

calculateCorrelationMatrix(d) ==
    SortByAbsCorr([k \in 1..Len(VariablePairs) |-> Entry(d, VariablePairs[k])])

\* the records as a call leaves them: data.map(d => d[variable]) builds new
\* arrays for spearmanCorrelation, and the sort is that of the local matrix
matrixLeaves(d) == d

----------------------------------------------------------------------------
(* Specification of calculateCorrelationMatrix over bounded data sets *)

\* scores in hundredths: 1.00 and 5.00
Scores == {Num(100, 100), Num(500, 100)}

ScoreRows ==
    [intensity : Scores, dependency : Scores, competence : Scores, alienation : Scores]

DataItem(k, r) ==
    [id |-> k, intensity |-> r.intensity, dependency |-> r.dependency,
     competence |-> r.competence, alienation |-> r.alienation,
     usageGroup |-> "Moderate/Light"]

\* every data set of at most MaxRecords respondents with scores in Scores
SmallData ==
    {[k \in 1..Len(rows) |-> DataItem(k, rows[k])] : rows \in SeqsUpTo(ScoreRows, MaxRecords)}

\* the i-th of the intensity means 1.00, 1.20, ..., of five items
Step(i) == Num(100 + 20 * (i - 1), 100)

\* A cohort of CohortSize respondents: intensity rises with the id;
\* dependency follows intensity, except that the m lowest are in reverse
\* order and respondents p and q are exchanged; competence is the same for
\* all; alienation falls with the id.
CohortOrder(m, p, q) ==
    LET base(j) == IF j <= m THEN m + 1 - j ELSE j
    IN  [k \in 1..CohortSize |->
            IF k = p THEN base(q) ELSE IF k = q THEN base(p) ELSE base(k)]

Cohort(m, p, q) ==
    [k \in 1..CohortSize |->
        [id |-> k, intensity |-> Step(k), dependency |-> Step(CohortOrder(m, p, q)[k]),
         competence |-> Num(300, 100), alienation |-> Step(CohortSize + 1 - k),
         usageGroup |-> "Moderate/Light"]]

CohortData == {Cohort(m, 4, q) : m \in 0..CohortSize, q \in 5..CohortSize}

IdleMatrix ==
    /\ IdleSession
    /\ x = <<>>
    /\ y = <<>>
    /\ rho = NoRho
    /\ csvText = <<>>
    /\ parsedData = <<>>

InitMatrix ==
    /\ pc = "call"
    /\ data \in SmallData \cup CohortData
    /\ correlations = <<>>
    /\ IdleMatrix

CallMatrix ==
    /\ pc = "call"
    /\ correlations' = calculateCorrelationMatrix(data)
    /\ data' = matrixLeaves(data)
    /\ pc' = "done"
    /\ UNCHANGED <<x, y, rho, csvText, parsedData, session>>

NextMatrix == CallMatrix

SpecMatrix == InitMatrix /\ [][NextMatrix]_vars

\* |r| >= 0.25 for the stored, rounded value r
StoredAbsAtLeastQuarter(r) == ~r.nan /\ 4 * Abs(r.num) >= r.den

\* C2: in every entry returned by calculateCorrelationMatrix, significant is
\* true iff the absolute value of the entry's own rounded rho is >= 0.25.
C2_SignificantIffStoredRho ==
    pc = "done" =>
        \A k \in 1..Len(correlations) :
            correlations[k].significant <=> StoredAbsAtLeastQuarter(correlations[k].correlation)

\* C3: calculateCorrelationMatrix called with no records returns no entries.
C3_EmptyGivesEmpty ==
    (pc = "done" /\ data = <<>>) => correlations = <<>>

UnorderedPairs == {{variables[i], variables[j]} : i, j \in 1..Len(variables)} \ {{variables[i]} : i \in 1..Len(variables)}

\* C7: for non-empty data the table has exactly 6 entries, one for each of
\* the 6 unordered pairs of the four variables: no entry pairs a variable
\* with itself and no pair occurs twice, in either order.
C7_SixUnorderedPairs ==
    (pc = "done" /\ data # <<>>) =>
        /\ Len(correlations) = 6
        /\ \A k \in 1..Len(correlations) : correlations[k].var1 # correlations[k].var2
        /\ {{correlations[k].var1, correlations[k].var2} : k \in 1..Len(correlations)}
              = UnorderedPairs
        /\ \A k, l \in 1..Len(correlations) :
              k # l => {correlations[k].var1, correlations[k].var2}
                         # {correlations[l].var1, correlations[l].var2}

C7_Witness ==
    /\ pc = "done"
    /\ Len(data) >= 2
    /\ Len(correlations) = 6
    /\ \E k \in 1..6 : correlations[k].var1 # variables[VariablePairs[k][1]]

\* position of an entry's pair in the enumeration order of the loops
EnumIndex(e) ==
    CHOOSE k \in 1..Len(VariablePairs) :
        variables[VariablePairs[k][1]] = e.var1 /\ variables[VariablePairs[k][2]] = e.var2

AbsGeq(a, b) == ~a.nan /\ ~b.nan /\ Abs(a.num) * b.den >= Abs(b.num) * a.den

AbsEq(a, b) == ~a.nan /\ ~b.nan /\ Abs(a.num) * b.den = Abs(b.num) * a.den

\* C8: the returned entries are the enumeration-order list stably sorted by
\* descending |rho|: consecutive entries are non-increasing in |rho|, and
\* entries of equal |rho| keep their enumeration order.
C8_SortedStable ==
    pc = "done" =>
        \A k \in 1..(Len(correlations) - 1) :
            /\ AbsGeq(correlations[k].correlation, correlations[k + 1].correlation)
            /\ AbsEq(correlations[k].correlation, correlations[k + 1].correlation)
                  => EnumIndex(correlations[k]) < EnumIndex(correlations[k + 1])

\* dependency and alienation are strictly ordered, the same way, across
\* every two records of d
CoOrdered(d) ==
    \A i, j \in 1..Len(d) :
        i # j => \/ Above(d[i].dependency, d[j].dependency)
                      /\ Above(d[i].alienation, d[j].alienation)
                 \/ Above(d[j].dependency, d[i].dependency)
                      /\ Above(d[j].alienation, d[i].alienation)

\* C16: for two records whose dependency and alienation values are strictly
\* ordered the same way, the entry of the pair dependency-alienation has
\* correlation 1 and is significant.
C16_CoOrderedGivesOne ==
    (pc = "done" /\ Len(data) = 2 /\ CoOrdered(data)) =>
        /\ \E k \in 1..Len(correlations) :
              correlations[k].var1 = "dependency" /\ correlations[k].var2 = "alienation"
        /\ \A k \in 1..Len(correlations) :
              (correlations[k].var1 = "dependency" /\ correlations[k].var2 = "alienation")
                  => /\ IsNumber(correlations[k].correlation, 1)
                     /\ correlations[k].significant

\* the respondents (1, 1) and (5, 5)
C16_Witness ==
    /\ pc = "done"
    /\ Len(data) = 2
    /\ data[1].dependency = Num(100, 100) /\ data[1].alienation = Num(100, 100)
    /\ data[2].dependency = Num(500, 100) /\ data[2].alienation = Num(500, 100)
    /\ \E k \in 1..Len(correlations) :
          /\ correlations[k].var1 = "dependency" /\ correlations[k].var2 = "alienation"
          /\ correlations[k].correlation = Num(1000, 1000)
          /\ correlations[k].significant

----------------------------------------------------------------------------
(* Two calls in a row of spearmanCorrelation, or of                        *)
(* calculateCorrelationMatrix, on the same arrays                          *)

\* data sets of fewer than MaxRecords respondents
FewRecords == {d \in SmallData : Len(d) < MaxRecords}

InitPure ==
    \/ InitSpearman
    \/ /\ pc = "call"
       /\ data \in FewRecords
       /\ correlations = <<>>
       /\ IdleMatrix

\* the second call of spearmanCorrelation, on x and y as the first left them
CallSpearmanAgain ==
    /\ pc = "done"
    /\ rho # NoRho
    /\ rho' = spearmanCorrelation(x, y)
    /\ x' = spearmanLeaves(x, y)[1]
    /\ y' = spearmanLeaves(x, y)[2]
    /\ pc' = "again"
    /\ UNCHANGED <<data, correlations, csvText, parsedData, session>>

\* the second call of calculateCorrelationMatrix, on data as the first left it
CallMatrixAgain ==
    /\ pc = "done"
    /\ rho = NoRho
    /\ correlations' = calculateCorrelationMatrix(data)
    /\ data' = matrixLeaves(data)
    /\ pc' = "again"
    /\ UNCHANGED <<x, y, rho, csvText, parsedData, session>>

NextPure ==
    \/ CallSpearman
    \/ CallMatrix
    \/ CallSpearmanAgain
    \/ CallMatrixAgain

SpecPure == InitPure /\ [][NextPure]_vars

----------------------------------------------------------------------------
(* parseCSVData.  A text is a sequence of one-character strings. *)

NL == "\n"

Quote == "\""

\* the characters String.prototype.trim and parseInt skip
WhiteSpace == {" ", "\t", "\r", NL}

\* csvText.trim(): from the first to the last character outside WhiteSpace
trim(t) ==
    LET black == {k \in 1..Len(t) : t[k] \notin WhiteSpace}
    IN  IF black = {} THEN <<>>
        ELSE SubSeq(t, CHOOSE k \in black : \A j \in 1..(k - 1) : t[j] \in WhiteSpace,
                       CHOOSE k \in black : \A j \in (k + 1)..Len(t) : t[j] \in WhiteSpace)

\* the pieces of t between the separator positions seps (an ascending sequence)
Pieces(t, seps) ==
    [f \in 1..(Len(seps) + 1) |->
        SubSeq(t, IF f = 1 THEN 1 ELSE seps[f - 1] + 1,
                  IF f = Len(seps) + 1 THEN Len(t) ELSE seps[f] - 1)]

Positions(t) == [k \in 1..Len(t) |-> k]

\* t.split('\n')
SplitLines(t) == Pieces(t, SelectSeq(Positions(t), LAMBDA k : t[k] = NL))

\* the commas of the line at which the pattern /,(?=(?:(?:[^"]*"){2})*[^"]*$)/
\* matches: those with an even number of double quotes between them and
\* the end of the line
SplittingCommas(line) ==
    LET quotes == {j \in 1..Len(line) : line[j] = Quote}
    IN  SelectSeq(Positions(line),
                  LAMBDA k : line[k] = "," /\ Cardinality({j \in quotes : j > k}) % 2 = 0)

\* the split mutated: line.split(','), every comma starts a new field
SplitFieldsEveryComma(line) ==
    Pieces(line, SelectSeq(Positions(line), LAMBDA k : line[k] = ","))

\* line.split(/,(?=(?:(?:[^"]*"){2})*[^"]*$)/)
SplitFields(line) == Pieces(line, SplittingCommas(line))

DigitChars == <<"0", "1", "2", "3", "4", "5", "6", "7", "8", "9",
                "a", "b", "c", "d", "e", "f">>

UpperDigitChars == <<"0", "1", "2", "3", "4", "5", "6", "7", "8", "9",
                     "A", "B", "C", "D", "E", "F">>

IsDigit(c, radix) ==
    \E v \in 1..radix : DigitChars[v] = c \/ UpperDigitChars[v] = c

DigitValue(c) ==
    (CHOOSE v \in 1..16 : DigitChars[v] = c \/ UpperDigitChars[v] = c) - 1

RECURSIVE DigitsValue(_, _)
DigitsValue(ds, radix) ==
    IF ds = <<>> THEN 0
    ELSE radix * DigitsValue(SubSeq(ds, 1, Len(ds) - 1), radix) + DigitValue(ds[Len(ds)])

\* the longest prefix of t made of digits of the radix
DigitPrefix(t, radix) ==
    LET stop == {k \in 1..Len(t) : ~IsDigit(t[k], radix)}
    IN  IF stop = {} THEN t
        ELSE SubSeq(t, 1, (CHOOSE k \in stop : \A j \in stop : k <= j) - 1)

\* ds without its leading zeros
Significant(ds) ==
    LET nonzero == {k \in 1..Len(ds) : ds[k] # "0"}
    IN  IF nonzero = {} THEN <<>>
        ELSE SubSeq(ds, CHOOSE k \in nonzero : \A j \in 1..(k - 1) : ds[j] = "0", Len(ds))

\* An integer of more than 309 decimal digits, or of more than 256
\* hexadecimal digits, is above every finite Number (the largest is just
\* under 2^1024, about 1.8 * 10^308): parseInt rounds it to Infinity.
MaxFiniteDecimalDigits == 309

MaxFiniteHexDigits == 256

Overflows(ds, radix) ==
    Len(Significant(ds)) > (IF radix = 16 THEN MaxFiniteHexDigits ELSE MaxFiniteDecimalDigits)

\* parseInt(t) without a radix: leading white space is skipped, then an
\* optional sign, then an optional 0x / 0X (radix 16), then the longest run
\* of digits is read; no digit gives NaN, a run too long for a finite Number
\* gives an infinity.  (The digit runs of the model are either short enough
\* to be exact integers or long enough to overflow.)
parseInt(t) ==
    LET black == {k \in 1..Len(t) : t[k] \notin WhiteSpace}
        s1 == IF black = {} THEN <<>>
              ELSE SubSeq(t, CHOOSE k \in black : \A j \in 1..(k - 1) : t[j] \in WhiteSpace,
                          Len(t))
        signed == s1 # <<>> /\ s1[1] \in {"+", "-"}
        s2 == IF signed THEN Tail(s1) ELSE s1
        hex == Len(s2) >= 2 /\ s2[1] = "0" /\ s2[2] \in {"x", "X"}
        radix == IF hex THEN 16 ELSE 10
        ds == DigitPrefix(IF hex THEN SubSeq(s2, 3, Len(s2)) ELSE s2, radix)
    IN  IF ds = <<>> THEN NaN
        ELSE IF Overflows(ds, radix)
             THEN (IF signed /\ s1[1] = "-" THEN MinusInfinity ELSE Infinity)
        ELSE IF signed /\ s1[1] = "-" THEN Num(-DigitsValue(ds, radix), 1)
        ELSE Num(DigitsValue(ds, radix), 1)

\* values[idx] as parseInt receives it: a missing element is undefined,
\* which parseInt reads as the text "undefined"
Field(values, idx) ==
    IF idx + 1 <= Len(values) THEN values[idx + 1]
    ELSE <<"u", "n", "d", "e", "f", "i", "n", "e", "d">>

\* getVal mutated: a value outside the survey scale 1..5 counts as 0
getValRangeChecked(values, idx) ==
    LET v == parseInt(Field(values, idx))
    IN  IF v.nan \/ v.num < 1 \/ v.num > 5 THEN Num(0, 1) ELSE v

\* getVal = (idx) => parseInt(values[idx]) || 0
getVal(values, idx) ==
    LET v == parseInt(Field(values, idx))
    IN  IF v.nan \/ v.num = 0 THEN Num(0, 1) ELSE v

\* a + b for integers and infinities: Infinity + -Infinity is NaN
Plus(a, b) ==
    IF a.nan \/ b.nan THEN NaN
    ELSE IF IsInfinite(a) /\ IsInfinite(b) THEN (IF a = b THEN a ELSE NaN)
    ELSE IF IsInfinite(a) THEN a
    ELSE IF IsInfinite(b) THEN b
    ELSE Num(a.num + b.num, 1)

RECURSIVE SumVals(_, _)
SumVals(values, cols) ==
    IF cols = <<>> THEN Num(0, 1)
    ELSE Plus(SumVals(values, SubSeq(cols, 1, Len(cols) - 1)), getVal(values, cols[Len(cols)]))

\* the score mutated: the sum of the group, not divided by its size
toFixed2NoMean(sum, count) ==
    IF sum.nan THEN NaN
    ELSE IF IsInfinite(sum) THEN sum
    ELSE Num(100 * sum.num, 100)

\* parseFloat((sum / count).toFixed(2)): the nearest multiple of 0.01, a
\* half rounding away from zero.  (A mean of four or five integers has at
\* most two decimals, so nothing is rounded off.)  An infinity stays an
\* infinity: its toFixed(2) is "Infinity" or "-Infinity", which parseFloat
\* reads back.
toFixed2(sum, count) ==
    IF sum.nan THEN NaN
    ELSE IF IsInfinite(sum) THEN sum
    ELSE LET m == (200 * Abs(sum.num) + count) \div (2 * count)
         IN  Num(IF sum.num < 0 THEN -m ELSE m, 100)

intensityCols == <<2, 4, 5, 18, 19>>

dependencyCols == <<3, 6, 20, 21, 22>>

competenceCols == <<7, 8, 9, 10>>

\* the alienation group mutated: one column to the left
alienationColsShifted == <<12, 13, 14, 15, 16>>

alienationCols == <<13, 14, 15, 16, 17>>

\* the class mutated: heavy only above 4
usageGroupStrict(first) ==
    IF first.num > 4 * first.den THEN "Heavy User (>6 Jam)" ELSE "Moderate/Light"

\* getVal(2) >= 4 ? 'Heavy User (>6 Jam)' : 'Moderate/Light'
usageGroupOf(first) ==
    IF first.num >= 4 * first.den THEN "Heavy User (>6 Jam)" ELSE "Moderate/Light"

\* the object the map callback returns for a line, under the id it is given
Record(line, id) ==
    LET values == SplitFields(line)
    IN  [id |-> id,
         intensity |-> toFixed2(SumVals(values, intensityCols), Len(intensityCols)),
         dependency |-> toFixed2(SumVals(values, dependencyCols), Len(dependencyCols)),
         competence |-> toFixed2(SumVals(values, competenceCols), Len(competenceCols)),
         alienation |-> toFixed2(SumVals(values, alienationCols), Len(alienationCols)),
         usageGroup |-> usageGroupOf(getVal(values, 2))]

\* the id mutated: id: index
ParseLineZeroBased(line, index) == Record(line, index)

\* the callback of lines.slice(1).map((line, index) => ...), index from 0,
\* id: index + 1
ParseLine(line, index) == Record(line, index + 1)

\* lines.slice(1)
DataLines(t) ==
    LET lines == SplitLines(trim(t))
    IN  SubSeq(lines, 2, Len(lines))

\* the filter mutated: parsedData.filter(d => d.intensity), which drops 0 too
parseCSVDataDropZero(t) ==
    LET lines == DataLines(t)
        mapped == [k \in 1..Len(lines) |-> ParseLine(lines[k], k - 1)]
    IN  SelectSeq(mapped, LAMBDA d : ~d.intensity.nan /\ d.intensity.num # 0)

\* the filter mutated: there is none
parseCSVDataUnfiltered(t) ==
    LET lines == DataLines(t)
    IN  [k \in 1..Len(lines) |-> ParseLine(lines[k], k - 1)]

\* .map(callback) and then .filter(d => !isNaN(d.intensity))
parseCSVData(t) ==
    LET lines == DataLines(t)
        mapped == [k \in 1..Len(lines) |-> ParseLine(lines[k], k - 1)]
    IN  SelectSeq(mapped, LAMBDA d : ~d.intensity.nan)

----------------------------------------------------------------------------
(* Specification of parseCSVData over bounded CSV texts *)

RECURSIVE JoinWith(_, _)
JoinWith(parts, sep) ==
    IF parts = <<>> THEN <<>>
    ELSE IF Len(parts) = 1 THEN parts[1]
    ELSE JoinWith(SubSeq(parts, 1, Len(parts) - 1), sep) \o <<sep>> \o parts[Len(parts)]

\* a full row has the fields 0 .. 22, the last one read by dependencyScore
RowWidth == dependencyCols[Len(dependencyCols)] + 1

\* the texts a cell may hold
CellTexts ==
    { <<"1">>, <<"3">>, <<"4">>, <<"5">>, <<"7">>, <<"0">>, <<"-", "2">>, <<"3", "7">>,
      <<>>, <<"a">>, <<"3", "a">>, <<" ", "5">>, <<Quote, "4", Quote>>, <<"0", "x", "1", "F">> }

\* a row whose field 0 is c0, field 2 is c2, the other intensity columns
\* are cI and every other field is cO
Row(c0, c2, cI, cO) ==
    JoinWith([k \in 1..RowWidth |->
                 IF k = 1 THEN c0
                 ELSE IF k = 3 THEN c2
                 ELSE IF \E n \in 1..Len(intensityCols) : intensityCols[n] = k - 1 THEN cI
                 ELSE cO], ",")

\* quoted fields holding one comma and two commas
QuotedStamp == <<Quote, "a", ",", "b", Quote>>

QuotedStampTwo == <<Quote, ",", "a", ",", Quote>>

\* the decimal text of n < 100
DigitText(n) ==
    IF n < 10 THEN <<DigitChars[n + 1]>>
    ELSE <<DigitChars[(n \div 10) + 1], DigitChars[(n % 10) + 1]>>

\* the full row whose field k holds the text of k
IndexRow == JoinWith([k \in 1..RowWidth |-> DigitText(k - 1)], ",")

LineSet ==
    {<<>>, <<" ">>, <<"a", ",", "b", ",", "c">>, IndexRow}
    \cup {Row(<<"t">>, c, <<"5">>, <<"1">>) : c \in CellTexts}
    \cup {Row(<<"t">>, c, c, c) : c \in {<<"1">>, <<"5">>, <<"7">>, <<"a">>}}
    \cup {Row(<<"t">>, <<"5">>, <<"5">>, <<"a">>)}
    \cup {Row(QuotedStamp, <<"4">>, <<"5">>, <<"1">>), Row(QuotedStampTwo, <<"3">>, <<"3">>, <<"a">>)}

Header == <<"h">>

CsvTexts == {JoinWith(<<Header>> \o lines, NL) : lines \in SeqsUpTo(LineSet, MaxLines)}

InitParse ==
    /\ pc = "call"
    /\ csvText \in CsvTexts
    /\ parsedData = <<>>
    /\ x = <<>>
    /\ y = <<>>
    /\ rho = NoRho
    /\ data = <<>>
    /\ correlations = <<>>
    /\ IdleSession

CallParse ==
    /\ pc = "call"
    /\ parsedData' = parseCSVData(csvText)
    /\ pc' = "done"
    /\ UNCHANGED <<x, y, rho, data, correlations, csvText, session>>

NextParse == CallParse

SpecParse == InitParse /\ [][NextParse]_vars

\* the lines of the text after its first line, as written in the file
FileDataLines(t) ==
    LET lines == SplitLines(t)
    IN  SubSeq(lines, 2, Len(lines))

IsBlank(line) == \A k \in 1..Len(line) : line[k] \in WhiteSpace

\* C4: no record is produced for a data line that is empty or holds only
\* white space (the record of data line k would carry id k).
C4_BlankLinesDropped ==
    pc = "done" =>
        \A k \in 1..Len(FileDataLines(csvText)) :
            IsBlank(FileDataLines(csvText)[k])
                => \A j \in 1..Len(parsedData) : parsedData[j].id # k

RECURSIVE Pow(_, _)
Pow(b, n) == IF n = 0 THEN 1 ELSE b * Pow(b, n - 1)

\* value of a run of digits, by place value
PlaceValue(ds, radix) ==
    SumSeq([k \in 1..Len(ds) |-> DigitValue(ds[k]) * Pow(radix, Len(ds) - k)])

AllDigits(ds, radix) == ds # <<>> /\ \A k \in 1..Len(ds) : IsDigit(ds[k], radix)

\* the text is an integer and nothing else: an optional sign and decimal digits
IsIntegerText(t) ==
    AllDigits(IF t # <<>> /\ t[1] \in {"+", "-"} THEN Tail(t) ELSE t, 10)

IntegerTextValue(t) ==
    IF t[1] = "-" THEN -PlaceValue(Tail(t), 10)
    ELSE IF t[1] = "+" THEN PlaceValue(Tail(t), 10)
    ELSE PlaceValue(t, 10)

\* the raw value the claim gives a cell: 0 when the field is missing, is not
\* an integer text, or is an integer outside the survey scale 1..5
ClaimedRaw(values, idx) ==
    IF idx + 1 > Len(values) THEN 0
    ELSE IF ~IsIntegerText(values[idx + 1]) THEN 0
    ELSE IF IntegerTextValue(values[idx + 1]) \notin 1..5 THEN 0
    ELSE IntegerTextValue(values[idx + 1])

\* the raw value the code gives a cell: the integer that starts the text
\* (after white space; decimal, or hexadecimal after 0x), whatever follows
\* it and whatever its size; 0 when the field is missing or starts with no
\* integer
LeadingRaw(values, idx) ==
    IF idx + 1 > Len(values) THEN 0
    ELSE LET t == values[idx + 1]
             lead == {k \in 1..Len(t) : \A j \in 1..k : t[j] \in WhiteSpace}
             s == SubSeq(t, Cardinality(lead) + 1, Len(t))
             signed == s # <<>> /\ s[1] \in {"+", "-"}
             body == IF signed THEN Tail(s) ELSE s
             hex == Len(body) >= 2 /\ body[1] = "0" /\ body[2] \in {"x", "X"}
             radix == IF hex THEN 16 ELSE 10
             digits == IF hex THEN SubSeq(body, 3, Len(body)) ELSE body
             runs == {n \in 1..Len(digits) : AllDigits(SubSeq(digits, 1, n), radix)}
             magnitude == IF runs = {} THEN 0
                          ELSE PlaceValue(SubSeq(digits, 1, Cardinality(runs)), radix)
         IN  IF signed /\ s[1] = "-" THEN -magnitude ELSE magnitude

\* every composite of every record is the mean of the raw values Raw gives
\* the cells of its column group
SumsFollow(Raw(_, _)) ==
    \A j \in 1..Len(parsedData) :
        LET r == parsedData[j]
            values == SplitFields(DataLines(csvText)[r.id])
            Total(cols) == SumSeq([n \in 1..Len(cols) |-> Raw(values, cols[n])])
        IN  /\ r.intensity = Num(20 * Total(intensityCols), 100)
            /\ r.dependency = Num(20 * Total(dependencyCols), 100)
            /\ r.competence = Num(25 * Total(competenceCols), 100)
            /\ r.alienation = Num(20 * Total(alienationCols), 100)

ValuesOf(j) == SplitFields(DataLines(csvText)[parsedData[j].id])

\* the mean of the leading integers of the columns in group, as a score;
\* 100 times the sum of four or five integers is a multiple of their count
MeanOver(values, group) ==
    LET total == SumSeq([c \in 1..RowWidth |->
                            IF (c - 1) \in group THEN LeadingRaw(values, c - 1) ELSE 0])
    IN  Num((100 * total) \div Cardinality(group), 100)

SameOn(v, w, group) == \A c \in group : LeadingRaw(v, c) = LeadingRaw(w, c)

IntensityGroup == {2, 4, 5, 18, 19}

DependencyGroup == {3, 6, 20, 21, 22}

CompetenceGroup == {7, 8, 9, 10}

AlienationGroup == {13, 14, 15, 16, 17}

\* C13: each composite of each record is the mean, to 2 decimals, of its
\* column group (intensity 2,4,5,18,19; dependency 3,6,20,21,22; competence
\* 7,8,9,10; alienation 13..17); two rows that agree on a group have the same
\* score for it, and intensity columns all 5 give intensity 5.00.
C13_GroupMeans ==
    pc = "done" =>
        \A j \in 1..Len(parsedData) :
            LET r == parsedData[j]
            IN  /\ r.intensity = MeanOver(ValuesOf(j), IntensityGroup)
                /\ r.dependency = MeanOver(ValuesOf(j), DependencyGroup)
                /\ r.competence = MeanOver(ValuesOf(j), CompetenceGroup)
                /\ r.alienation = MeanOver(ValuesOf(j), AlienationGroup)
                /\ (\A c \in IntensityGroup : LeadingRaw(ValuesOf(j), c) = 5)
                      => r.intensity = Num(500, 100)
                /\ \A k \in 1..Len(parsedData) :
                      LET q == parsedData[k]
                      IN  /\ SameOn(ValuesOf(j), ValuesOf(k), IntensityGroup)
                                => r.intensity = q.intensity
                          /\ SameOn(ValuesOf(j), ValuesOf(k), DependencyGroup)
                                => r.dependency = q.dependency
                          /\ SameOn(ValuesOf(j), ValuesOf(k), CompetenceGroup)
                                => r.competence = q.competence
                          /\ SameOn(ValuesOf(j), ValuesOf(k), AlienationGroup)
                                => r.alienation = q.alienation

\* the row 0,1,...,22 and a row with intensity columns 5 and letters elsewhere
C13_Witness ==
    /\ pc = "done"
    /\ \E j \in 1..Len(parsedData) :
          /\ DataLines(csvText)[parsedData[j].id] = IndexRow
          /\ parsedData[j].intensity = Num(960, 100)
          /\ parsedData[j].dependency = Num(1440, 100)
          /\ parsedData[j].competence = Num(850, 100)
          /\ parsedData[j].alienation = Num(1500, 100)
    /\ \E j \in 1..Len(parsedData) :
          /\ Len(ValuesOf(j)) = RowWidth
          /\ ValuesOf(j)[4] = <<"a">>
          /\ parsedData[j].intensity = Num(500, 100)

\* C14: usageGroup is the heavy class exactly when the value of column 2 is
\* at least 4, the moderate/light class otherwise, and two rows with the same
\* column 2 have the same class.
C14_HeavyIffColumnTwo ==
    pc = "done" =>
        \A j \in 1..Len(parsedData) :
            /\ parsedData[j].usageGroup \in {"Heavy User (>6 Jam)", "Moderate/Light"}
            /\ parsedData[j].usageGroup = "Heavy User (>6 Jam)"
                  <=> LeadingRaw(ValuesOf(j), 2) >= 4
            /\ \A k \in 1..Len(parsedData) :
                  SameOn(ValuesOf(j), ValuesOf(k), {2})
                      => parsedData[j].usageGroup = parsedData[k].usageGroup

\* column 2 = 3 next to intensity columns of 5, and column 2 = 4
C14_Witness ==
    /\ pc = "done"
    /\ \E j \in 1..Len(parsedData) :
          /\ Len(ValuesOf(j)) = RowWidth
          /\ ValuesOf(j)[3] = <<"3">>
          /\ ValuesOf(j)[5] = <<"5">>
          /\ parsedData[j].usageGroup = "Moderate/Light"
    /\ \E j \in 1..Len(parsedData) :
          /\ Len(ValuesOf(j)) = RowWidth
          /\ ValuesOf(j)[3] = <<"4">>
          /\ parsedData[j].usageGroup = "Heavy User (>6 Jam)"

ContributingCols == (2..10) \cup (13..22)

\* every contributing column of the row holds an integer of the scale 1..5
InScale(values) ==
    \A c \in ContributingCols :
        /\ c + 1 <= Len(values)
        /\ IsIntegerText(values[c + 1])
        /\ IntegerTextValue(values[c + 1]) \in 1..5

Between1And5(score) == ~score.nan /\ score.den = 100 /\ score.num \in 100..500

\* C15: a record of a row whose contributing columns (2-10, 13-22) all hold
\* integers in 1..5 has all four composites within [1, 5].
C15_ScoresInScale ==
    pc = "done" =>
        \A j \in 1..Len(parsedData) :
            InScale(ValuesOf(j)) =>
                /\ Between1And5(parsedData[j].intensity)
                /\ Between1And5(parsedData[j].dependency)
                /\ Between1And5(parsedData[j].competence)
                /\ Between1And5(parsedData[j].alienation)

\* rows at both ends of the scale
C15_Witness ==
    /\ pc = "done"
    /\ \E j \in 1..Len(parsedData) :
          /\ InScale(ValuesOf(j))
          /\ parsedData[j].intensity = Num(500, 100)
          /\ parsedData[j].competence = Num(500, 100)
    /\ \E j \in 1..Len(parsedData) :
          /\ InScale(ValuesOf(j))
          /\ parsedData[j].intensity = Num(100, 100)
          /\ parsedData[j].competence = Num(100, 100)

\* C17: the records keep the order of their lines: the id of a record is the
\* 1-based position of its line among the data lines, counted before the
\* filter, and ids increase strictly along the output.
C17_IdsFollowLines ==
    pc = "done" =>
        /\ \A j \in 1..Len(parsedData) :
              /\ parsedData[j].id \in 1..Len(DataLines(csvText))
              /\ parsedData[j].intensity = MeanOver(ValuesOf(j), IntensityGroup)
              /\ parsedData[j].dependency = MeanOver(ValuesOf(j), DependencyGroup)
              /\ parsedData[j].usageGroup = "Heavy User (>6 Jam)"
                    <=> LeadingRaw(ValuesOf(j), 2) >= 4
        /\ \A j \in 1..(Len(parsedData) - 1) : parsedData[j].id < parsedData[j + 1].id

\* two records of different lines, in the order of the lines
C17_Witness ==
    /\ pc = "done"
    /\ Len(parsedData) = 2
    /\ parsedData[1].id = 1
    /\ parsedData[2].id = 2
    /\ parsedData[1].intensity = Num(960, 100)
    /\ parsedData[2].intensity = Num(0, 100)

\* C18: every data line whose intensity is a number gives exactly one
\* record, also a line with fewer than 23 fields and a line whose scored
\* columns all count as 0.
C18_NumberLinesKept ==
    pc = "done" =>
        \A k \in 1..Len(DataLines(csvText)) :
            ~ParseLine(DataLines(csvText)[k], k - 1).intensity.nan =>
                /\ Cardinality({j \in 1..Len(parsedData) : parsedData[j].id = k}) = 1
                /\ \A j \in 1..Len(parsedData) :
                      parsedData[j].id = k =>
                          /\ parsedData[j].intensity = MeanOver(ValuesOf(j), IntensityGroup)
                          /\ parsedData[j].alienation = MeanOver(ValuesOf(j), AlienationGroup)

\* the line a,b,c and a full row of letters, both kept with scores of 0
C18_Witness ==
    /\ pc = "done"
    /\ \E j \in 1..Len(parsedData) :
          /\ Len(ValuesOf(j)) = 3
          /\ parsedData[j].intensity = Num(0, 100)
          /\ parsedData[j].competence = Num(0, 100)
    /\ \E j \in 1..Len(parsedData) :
          /\ Len(ValuesOf(j)) = RowWidth
          /\ parsedData[j].intensity = Num(0, 100)
          /\ parsedData[j].alienation = Num(0, 100)

\* position k of the line lies inside a double-quoted field
InsideQuotes(line, k) == Cardinality({j \in 1..(k - 1) : line[j] = Quote}) % 2 = 1

QuotedCommas(line) == {k \in 1..Len(line) : line[k] = "," /\ InsideQuotes(line, k)}

Balanced(line) == Cardinality({j \in 1..Len(line) : line[j] = Quote}) % 2 = 0

\* the line without the commas of its quoted fields
StripQuotedCommas(line) ==
    LET keep == SelectSeq(Positions(line), LAMBDA k : k \notin QuotedCommas(line))
    IN  [i \in 1..Len(keep) |-> line[keep[i]]]

\* C19: a comma inside a double-quoted field starts no field: a line with
\* balanced quotes has one field more than it has commas outside quotes, its
\* fields are those of the line without its quoted commas, and its record is
\* the record of that line.
C19_QuotedCommasKept ==
    pc = "done" =>
        /\ \A k \in 1..Len(DataLines(csvText)) :
              LET line == DataLines(csvText)[k]
                  fields == SplitFields(line)
                  plain == SplitFields(StripQuotedCommas(line))
              IN  Balanced(line) =>
                      /\ Len(fields) = 1 + Cardinality({c \in 1..Len(line) : line[c] = ","}
                                                          \ QuotedCommas(line))
                      /\ Len(fields) = Len(plain)
                      /\ \A f \in 1..Len(fields) : StripQuotedCommas(fields[f]) = plain[f]
        /\ \A j \in 1..Len(parsedData) :
              LET line == DataLines(csvText)[parsedData[j].id]
              IN  Balanced(line) =>
                      parsedData[j] = ParseLine(StripQuotedCommas(line), parsedData[j].id - 1)

\* a row whose first field is quoted and holds two commas
C19_Witness ==
    /\ pc = "done"
    /\ \E j \in 1..Len(parsedData) :
          /\ Cardinality(QuotedCommas(DataLines(csvText)[parsedData[j].id])) = 2
          /\ Len(ValuesOf(j)) = RowWidth
          /\ ValuesOf(j)[1] = QuotedStampTwo
          /\ parsedData[j].intensity = Num(300, 100)
          /\ parsedData[j].dependency = Num(0, 100)

----------------------------------------------------------------------------
(* Specification of parseCSVData over texts with cells too large for a     *)
(* finite Number                                                           *)

\* a cell of 310 nines, and the same with a minus sign
HugeCell == [k \in 1..(MaxFiniteDecimalDigits + 1) |-> "9"]

MinusHugeCell == <<"-">> \o HugeCell

\* a full row whose fields 2 and 4 are c2 and c4 and whose other fields are cO
WideRow(c2, c4, cO) ==
    JoinWith([k \in 1..RowWidth |-> IF k = 3 THEN c2 ELSE IF k = 5 THEN c4 ELSE cO], ",")

WideCells == {<<"5">>, HugeCell, MinusHugeCell}

WideLineSet ==
    {<<>>, <<"a", ",", "b", ",", "c">>}
    \cup {WideRow(c2, c4, <<"1">>) : c2 \in WideCells, c4 \in WideCells}

WideTexts == {JoinWith(<<Header>> \o lines, NL) : lines \in SeqsUpTo(WideLineSet, MaxLines)}

InitParseWide ==
    /\ pc = "call"
    /\ csvText \in WideTexts
    /\ parsedData = <<>>
    /\ x = <<>>
    /\ y = <<>>
    /\ rho = NoRho
    /\ data = <<>>
    /\ correlations = <<>>
    /\ IdleSession

SpecParseWide == InitParseWide /\ [][NextParse]_vars

BothInfinities(line) ==
    /\ \E n \in 1..Len(intensityCols) :
          getVal(SplitFields(line), intensityCols[n]) = Infinity
    /\ \E n \in 1..Len(intensityCols) :
          getVal(SplitFields(line), intensityCols[n]) = MinusInfinity

----------------------------------------------------------------------------
(* ResearchDashboard: the single data load of one dashboard session.       *)
(* A continuation of fetchData runs from one await to the next (or to the  *)
(* end) without interruption, and the state updates it makes are seen      *)
(* together by the next render.                                            *)

tabs == <<"overview", "correlation", "matrix", "behavior">>

\* what a rejected fetch can be caught as: an Error with the message of the
\* environment, or a value that is no Error
Rejections == {[isError |-> TRUE, message |-> "Failed to fetch"],
               [isError |-> FALSE, message |-> ""]}

\* what a rejected body read can be caught as
BodyRejections == {[isError |-> TRUE, message |-> "network error"]}

\* err instanceof Error ? err.message : "Terjadi kesalahan"
CaughtMessage(err) == IF err.isError THEN err.message ELSE "Terjadi kesalahan"

\* const correlations = data.length > 0 ? calculateCorrelationMatrix(data) : []
RenderCorrelations(d) == IF Len(d) > 0 THEN calculateCorrelationMatrix(d) ELSE <<>>

Init ==
    /\ pc = "mounted"
    /\ csvText \in CsvTexts
    /\ parsedData = <<>>
    /\ data = <<>>
    /\ correlations = RenderCorrelations(<<>>)
    /\ x = <<>>
    /\ y = <<>>
    /\ rho = NoRho
    /\ IdleSession

\* the failure path mutated: no finally block, loading is left as it is
FailKeepsLoading(m) ==
    /\ error' = Message(m)
    /\ pc' = "settled"
    /\ UNCHANGED <<x, y, rho, data, correlations, csvText, parsedData, activeTab, loading,
                   fetches>>

\* catch (err) { setError(...) } finally { setLoading(false) }
Fail(m) ==
    /\ error' = Message(m)
    /\ loading' = FALSE
    /\ pc' = "settled"
    /\ UNCHANGED <<x, y, rho, data, correlations, csvText, parsedData, activeTab, fetches>>

\* the effect mutated: no dependency array, so it runs after every render
RunEffectEveryRender ==
    /\ pc \in {"mounted", "settled"}
    /\ fetches < 3
    /\ fetches' = fetches + 1
    /\ pc' = "fetching"
    /\ UNCHANGED <<x, y, rho, data, correlations, csvText, parsedData, activeTab, loading, error>>

\* useEffect(() => { fetchData() }, []): runs once, after the first render,
\* up to the await of fetch(CSV_DATA_URL)
RunEffect ==
    /\ pc = "mounted"
    /\ fetches' = fetches + 1
    /\ pc' = "fetching"
    /\ UNCHANGED <<x, y, rho, data, correlations, csvText, parsedData, activeTab, loading, error>>

\* the fetch rejects (transport failure)
FetchRejected ==
    /\ pc = "fetching"
    /\ \E err \in Rejections : Fail(CaughtMessage(err))

\* the fetch resolves with a response that is not ok
FetchNotOk ==
    /\ pc = "fetching"
    /\ Fail("File CSV tidak ditemukan.")

\* the fetch resolves with an ok response: up to the await of response.text()
FetchOk ==
    /\ pc = "fetching"
    /\ pc' = "reading"
    /\ UNCHANGED <<x, y, rho, data, correlations, csvText, parsedData, session>>

\* reading the body rejects
TextRejected ==
    /\ pc = "reading"
    /\ \E err \in BodyRejections : Fail(CaughtMessage(err))

\* the empty parse mutated: nothing is thrown, only finally runs
TextEmptySilent ==
    /\ pc = "reading"
    /\ Len(parseCSVData(csvText)) = 0
    /\ loading' = FALSE
    /\ pc' = "settled"
    /\ UNCHANGED <<x, y, rho, data, correlations, csvText, parsedData, activeTab, error,
                   fetches>>

\* the body arrives and parses to no record
TextEmpty ==
    /\ pc = "reading"
    /\ Len(parseCSVData(csvText)) = 0
    /\ Fail("Data CSV kosong atau format salah.")

\* the parse step mutated: setData(parsed) without the length test
TextParsedUnguarded ==
    /\ pc = "reading"
    /\ parsedData' = parseCSVData(csvText)
    /\ data' = parsedData'
    /\ correlations' = RenderCorrelations(data')
    /\ loading' = FALSE
    /\ pc' = "settled"
    /\ UNCHANGED <<x, y, rho, csvText, activeTab, error, fetches>>

\* the body arrives and parses to records: setData(parsed), setLoading(false)
TextParsed ==
    /\ pc = "reading"
    /\ Len(parseCSVData(csvText)) > 0
    /\ parsedData' = parseCSVData(csvText)
    /\ data' = parsedData'
    /\ correlations' = RenderCorrelations(data')
    /\ loading' = FALSE
    /\ pc' = "settled"
    /\ UNCHANGED <<x, y, rho, csvText, activeTab, error, fetches>>

\* onClick={() => setActiveTab(tab)}: the tab bar is part of the main view
SelectTab ==
    /\ ~loading
    /\ error.isNull
    /\ \E k \in 1..Len(tabs) : activeTab' = tabs[k]
    /\ UNCHANGED <<pc, x, y, rho, data, correlations, csvText, parsedData, loading, error, fetches>>

Next ==
    \/ RunEffect
    \/ FetchRejected
    \/ FetchNotOk
    \/ FetchOk
    \/ TextRejected
    \/ TextEmpty
    \/ TextParsed
    \/ SelectTab

Spec == Init /\ [][Next]_vars

\* the two outcomes of a load
SuccessOutcome == Len(data) > 0 /\ error.isNull
ErrorOutcome == ~error.isNull /\ error.message # "" /\ Len(data) = 0

LoadFailure == FetchRejected \/ FetchNotOk \/ TextRejected \/ TextEmpty

\* C12: once loading is false the state is exactly one of success (data
\* non-empty, error null) and error (non-empty message, data empty); a failed
\* fetch and a parse of length 0 both end in the error outcome.
C12_ExactlyOneOutcome ==
    /\ [](~loading => (SuccessOutcome /\ ~ErrorOutcome) \/ (ErrorOutcome /\ ~SuccessOutcome))
    /\ [](pc = "settled" /\ Len(parseCSVData(csvText)) = 0 => ErrorOutcome)
    /\ [][LoadFailure => (~loading' /\ ErrorOutcome')]_vars

C12_Witness ==
    /\ ~loading
    /\ error = Message("Data CSV kosong atau format salah.")
    /\ Len(parseCSVData(csvText)) = 0
    /\ Len(data) = 0

\* C20: at most one fetch is ever issued in a session; once a load has failed
\* the error, the data and the number of fetches never change again.
C20_SingleFetch ==
    /\ [](fetches <= 1)
    /\ [][~error.isNull => (error' = error /\ data' = data /\ fetches' = fetches)]_vars

C20_Witness == pc = "settled" /\ ~error.isNull /\ fetches = 1 /\ Len(data) = 0

\* neither the loading view nor the error view: the main view is rendered
MainView == ~loading /\ error.isNull

\* C25: whenever the main view is rendered, data is non-empty, so the
\* correlation table of the view is computed from at least one record and
\* no division by data.length divides by 0.
C25_MainViewHasData ==
    MainView => /\ Len(data) > 0
                /\ correlations = calculateCorrelationMatrix(data)
                /\ Len(correlations) = Len(VariablePairs)

\* the heatmap tab of a loaded dashboard
C25_Witness ==
    /\ MainView
    /\ activeTab = "matrix"
    /\ Len(data) = 2
    /\ Len(correlations) = 6

\* the load is fair: the effect runs after the first render, and the fetch
\* and the read of the body each complete
LoadCompletes ==
    /\ WF_vars(RunEffect)
    /\ WF_vars(FetchRejected \/ FetchNotOk \/ FetchOk)
    /\ WF_vars(TextRejected \/ TextEmpty \/ TextParsed)

SpecLive == Init /\ [][Next]_vars /\ LoadCompletes

\* C23: when the fetch completes, loading, true at first, becomes false on
\* every path and is never true again.
C23_LoadingEnds ==
    /\ loading = TRUE
    /\ <>[](loading = FALSE)
    /\ [][~loading => ~loading']_vars

C23_Witness == pc = "settled" /\ ~loading /\ fetches = 1

====
